---- MODULE Spec2Model ----
(***************************************************************************)
(* Storefront client (Ulisha Store): the ProductDetails page, the          *)
(* ProductCard component, the OrderReceipt component and the install flow  *)
(* of main.tsx, modelled as state machines over the remote backend tables  *)
(* they read and write.                                                    *)
(*                                                                         *)
(* One module, several specifications: each specification moves the        *)
(* variables of one component and leaves the others at their initial       *)
(* values.                                                                 *)
(*   SpecRating   ProductDetails.handleRating, several clients, one DB     *)
(*   SpecFetch    ProductDetails.fetchProductDetails, the image gallery and *)
(*                changes of the productId route parameter, one client     *)
(*   FairSpecFetch  SpecFetch with every remote call eventually returning   *)
(*   SpecCard     ProductCard: share menu, copy link, add to cart, and the  *)
(*                notification elements and timers they create             *)
(*   FairSpecCard SpecCard with time passing and due timers firing         *)
(*   SpecCart     ProductCard: the add-to-cart button and its notifications *)
(*   SpecReceipt  OrderReceipt: print and download of the receipt          *)
(*   SpecGuest    handleRating and handleAddToCart of the product page and  *)
(*                handleAddToCart of the card, for a visitor and a user     *)
(*   SpecInstall  main.tsx: the install button and deferredPrompt           *)
(***************************************************************************)
EXTENDS Integers, Sequences, FiniteSets, TLC

(* ------------------------------------------------------------------ *)
(* Bounds of the model                                                  *)
(* ------------------------------------------------------------------ *)
MaxFlows == 2          \* handleRating runs started in one behaviour
MaxFetches == 3        \* fetchProductDetails runs started in one behaviour
MaxExtraImages == 2    \* product_images rows of one product
MaxAttempts == 2       \* copy-link and add-to-cart clicks on the card
MaxShares == 1         \* shareToSocial calls on the card
MaxToggles == 2        \* share button clicks on the card
MaxReceiptOps == 3     \* Print and Download clicks on the receipt
MaxInstallEvents == 2  \* beforeinstallprompt events dispatched to the window
MaxClicks == 3         \* clicks on the install button

(* ------------------------------------------------------------------ *)
(* Program constants                                                    *)
(* ------------------------------------------------------------------ *)
Stars == 5             \* [...Array(5)] star buttons, handleRating(i + 1)
DefaultRating == 5     \* productData.rating || 5
FadeDelay == 3000      \* setTimeout(..., 3000) of showNotification
RemoveDelay == 300     \* setTimeout(..., 300) of showNotification
CopiedDelay == 2000    \* setTimeout(() => setLinkCopied(false), 2000)
StarChoices == {2, Stars}   \* the star buttons the model clicks, of 1..Stars

Clients == {"c1", "c2"}          \* browser pages open on the storefront
Users == {"u1", "u2"}            \* accounts of the auth store
NoUser == "anon"                 \* useAuthStore state.user == null
ProductIds == {"p1", "p2"}       \* rows of the products table
NoProduct == "none"              \* useState<Product | null>(null)

(* ------------------------------------------------------------------ *)
(* State                                                                *)
(* ------------------------------------------------------------------ *)
VARIABLES
  \* backend (supabase) tables
  dbRatings,        \* product_ratings: [ProductIds -> [Users -> 0..Stars]], 0 = no row
  dbProductRating,  \* products.rating: [ProductIds -> <<num, den>>], <<0,1>> = 0 / NULL
  dbImages,         \* product_images: [ProductIds -> number of rows of the product]
  \* auth store and ProductDetails component state, per client page
  user,             \* useAuthStore state.user (NoUser when logged out)
  product,          \* useState product (a product id, or NoProduct)
  rating,           \* useState rating, a fraction <<num, den>>
  hasRated,         \* useState hasRated
  location,         \* window.location.href ("page" until a redirect)
  notes,            \* showNotification calls of the page, in order
  productId,        \* useParams productId
  loading,          \* useState loading
  productImages,    \* useState productImages, a sequence of image urls
  currentImageIndex,\* useState currentImageIndex (0-based, as in the code)
  fetches,          \* fetchProductDetails runs, one record per call
  \* ProductCard component and the document it runs in
  cardProduct,      \* the product prop: [id, name], texts as sequences of characters
  cardLoggedIn,     \* useAuthStore !!state.user
  route,            \* the router's location ("list" while the card is mounted)
  showShareOptions, \* useState showShareOptions
  linkCopied,       \* useState linkCopied
  notifications,    \* the elements showNotification created: [type, cls, removals]
  body,             \* the notification elements that are children of document.body
  timers,           \* pending setTimeout callbacks: [kind, note, left]
  clipboardPending, \* navigator.clipboard.writeText promises not yet settled
  cartPending,      \* addToCart promises not yet settled
  windows,          \* urls passed to window.open, in order
  shareLog,         \* platforms passed to shareToSocial, in order
  toggles,          \* share button clicks since the last shareToSocial
  attempts,         \* copy-link and add-to-cart clicks so far
  copyResults,      \* how the settled writeText promises ended, in order
  domErrors,        \* removeChild calls on an element that is not a child
  \* OrderReceipt component and the document it runs in
  order,            \* the order prop: [id, status], the id a sequence of characters
  receiptMounted,   \* receiptRef.current is the receipt element (null otherwise)
  docBody,          \* children of document.body, in order
  objectUrls,       \* object urls created and not revoked
  createdUrls,      \* URL.createObjectURL calls so far
  downloads,        \* clicks on a download anchor: [name, content, attached, live]
  printWindows,     \* windows opened by handlePrint: [content, printed, closed]
  opens,            \* results of the window.open calls of handlePrint
  receiptOps,       \* Print and Download clicks so far
  receiptRequests,  \* backend requests issued by the component
  \* handleRating runs
  flows,            \* sequence of runs, one record per call with a logged-in user
  \* ProductDetails.handleAddToCart, per client page
  pageCart,         \* addToCart promises of the page not yet settled
  pageAdds,         \* addToCart calls of the page so far
  \* the install flow of main.tsx and the document it runs in
  installButton,    \* document.getElementById('install-button') finds an element
  deferredPrompt,   \* let deferredPrompt: Undefined, Null, or an event
  buttonDisplay,    \* installButton.style.display ("" until it is assigned)
  clickListeners,   \* click listeners added to the button: the event each was added at
  choiceThens,      \* then-callbacks waiting on userChoice: the event of each
  promptCalls,      \* what prompt() was called on, in order: [click, on]
  installEvents,    \* beforeinstallprompt events so far
  clicks,           \* clicks on the install button so far
  lastEvent         \* the event whose listeners ran last ("none" at the start)

dbVars == <<dbRatings, dbProductRating>>
pageVars == <<user, product, rating, hasRated, location, notes>>
ratingVars == <<dbVars, pageVars, flows>>
galleryVars == <<productId, loading, productImages, currentImageIndex>>
fetchVars == <<dbImages, galleryVars, fetches>>

cardVars == <<cardProduct, cardLoggedIn, route, showShareOptions, linkCopied,
              notifications, body, timers, clipboardPending, cartPending,
              windows, shareLog, toggles, attempts, copyResults, domErrors>>
receiptVars == <<order, receiptMounted, docBody, objectUrls, createdUrls, downloads,
                 printWindows, opens, receiptOps, receiptRequests>>

cartVars == <<pageCart, pageAdds>>
installVars == <<installButton, deferredPrompt, buttonDisplay, clickListeners,
                 choiceThens, promptCalls, installEvents, clicks, lastEvent>>

(* what the steps of each component leave alone *)
notRating == <<fetchVars, cardVars, receiptVars, cartVars, installVars>>
notFetch == <<flows, cardVars, receiptVars, cartVars, installVars>>
notCard == <<ratingVars, fetchVars, receiptVars, cartVars, installVars>>
notReceipt == <<ratingVars, fetchVars, cardVars, cartVars, installVars>>
notInstall == <<ratingVars, fetchVars, cardVars, receiptVars, cartVars>>

(* the card as constructed, for the specifications that do not move it *)
CardIdle ==
  /\ cardProduct = [id |-> <<"p", "1">>, name |-> <<"T", "e", "a">>]
  /\ cardLoggedIn = FALSE
  /\ route = "list"
  /\ showShareOptions = FALSE
  /\ linkCopied = FALSE
  /\ notifications = <<>>
  /\ body = {}
  /\ timers = {}
  /\ clipboardPending = 0
  /\ cartPending = 0
  /\ windows = <<>>
  /\ shareLog = <<>>
  /\ toggles = 0
  /\ attempts = 0
  /\ copyResults = <<>>
  /\ domErrors = 0

(* the receipt as constructed, for the specifications that do not move it *)
ReceiptIdle ==
  /\ order = [id |-> <<"a", "b", "1", "2">>, status |-> "paid"]
  /\ receiptMounted = TRUE
  /\ docBody = <<<<"root", 0>>>>
  /\ objectUrls = {}
  /\ createdUrls = 0
  /\ downloads = <<>>
  /\ printWindows = <<>>
  /\ opens = <<>>
  /\ receiptOps = 0
  /\ receiptRequests = 0

(* no add-to-cart click on a product page yet *)
PageCartIdle ==
  /\ pageCart = [c \in {"c1", "c2"} |-> 0]
  /\ pageAdds = [c \in {"c1", "c2"} |-> 0]

(* the values of deferredPrompt: as declared, cleared, or the n-th      *)
(* beforeinstallprompt event                                            *)
Undefined == <<"undefined", 0>>
Null == <<"null", 0>>
Event(n) == <<"event", n>>

(* main.tsx has run, no install event has been dispatched yet *)
InstallIdle ==
  /\ installButton = TRUE
  /\ deferredPrompt = Undefined
  /\ buttonDisplay = ""
  /\ clickListeners = <<>>
  /\ choiceThens = <<>>
  /\ promptCalls = <<>>
  /\ installEvents = 0
  /\ clicks = 0
  /\ lastEvent = "none"

(* ------------------------------------------------------------------ *)
(* Numbers: products.rating is a JS number, the quotient of two        *)
(* integers; it is kept as the reduced fraction <<num, den>>.          *)
(* ------------------------------------------------------------------ *)
RECURSIVE GCD(_, _)
GCD(a, b) == IF b = 0 THEN a ELSE GCD(b, a % b)

Frac(n, d) == LET g == GCD(n, d) IN IF g = 0 THEN <<0, 1>> ELSE <<n \div g, d \div g>>

Whole(n) == <<n, 1>>

(* image urls: the product's own image is number 0, its product_images rows follow *)
Image(p, i) == <<p, i>>

(* the rows a select('rating').eq('product_id', p) returns: one per user with a row *)
RowsOf(tbl, p) == {u \in Users : tbl[p][u] # 0}

RECURSIVE SumRatings(_, _)
SumRatings(row, us) ==
  IF us = {} THEN 0
  ELSE LET u == CHOOSE x \in us : TRUE IN row[u] + SumRatings(row, us \ {u})

(* the quotient taken over one row too many *)
AvgRatingOffByOne(row) ==
  LET us == {u \in Users : row[u] # 0}
  IN Frac(SumRatings(row, us), Cardinality(us) + 1)

(* avgRating = ratings.reduce((sum, item) => sum + item.rating, 0) / ratings.length *)
AvgRating(row) ==
  LET us == {u \in Users : row[u] # 0}
  IN Frac(SumRatings(row, us), Cardinality(us))

(* ------------------------------------------------------------------ *)
(* ProductDetails.handleRating                                          *)
(* A run is a record: what the closure captured (client page, product, *)
(* user, value), where the run is (pc: the remote call it awaits, or   *)
(* "done"), the remote calls it has issued so far (calls), and what    *)
(* each await returned.                                                *)
(* ------------------------------------------------------------------ *)
Pending == "pending"

NewFlow(c, v) ==
  [client |-> c, pid |-> product[c], uid |-> user[c], value |-> v,
   pc |-> "upsert", calls |-> <<"upsert">>,
   upsert |-> Pending, read |-> Pending, update |-> Pending,
   nRows |-> 0, avg |-> <<0, 1>>,
   disturbed |-> FALSE, rowsAtWrite |-> [u \in Users |-> 0]]

FlowIds == 1..Len(flows)

InFlight(fl) == fl.pc # "done"

(* if (!isLoggedIn || !user || !product) *)
NotAllowedToRate(c) == user[c] = NoUser \/ product[c] = NoProduct

(* the upsert error is not looked at *)
UpsertNoThrow(ok) == FALSE

(* if (error) throw error;  after the upsert *)
UpsertThrows(ok) == ~ok

(* the read error is not looked at *)
ReadErrorIgnored(ok) == FALSE

(* if (ratingsError) throw ratingsError;  after the read *)
ReadThrows(ok) == ~ok

(* if (ratings && ratings.length > 0): data is null when the read failed *)
HasRows(ok, n) == ok /\ n > 0

(* a write of run g reached the table of product p: every other run on p *)
(* that is still under way has had another writer                       *)
Disturb(fs, g, wrote) ==
  [f \in DOMAIN fs |->
     IF wrote /\ f # g /\ InFlight(fs[f]) /\ fs[f].pid = fs[g].pid
     THEN [fs[f] EXCEPT !.disturbed = TRUE] ELSE fs[f]]

(* the notification shown twice *)
NotifyTwice(c, type) == notes' = [notes EXCEPT ![c] = Append(Append(@, type), type)]

(* showNotification(message, type) of the page *)
Notify(c, type) == notes' = [notes EXCEPT ![c] = Append(@, type)]

(* a click on star v of page c (the stars are rendered once the product  *)
(* is displayed)                                                       *)
HandleRating(c, v) ==
  /\ UNCHANGED notRating
  /\ location[c] = "page"
  /\ ~loading[c]
  /\ product[c] # NoProduct
  /\ IF NotAllowedToRate(c)
     THEN /\ location' = [location EXCEPT ![c] = "/login"]
          /\ UNCHANGED <<flows, dbVars, user, product, rating, hasRated, notes>>
     ELSE /\ Len(flows) < MaxFlows
          /\ flows' = Append(flows, NewFlow(c, v))
          /\ UNCHANGED <<dbVars, pageVars>>

(* the upsert of run f returns: the row is written unless it failed *)
UpsertReturn(f, ok) ==
  UNCHANGED notRating /\
  LET fl == flows[f]
      c == fl.client
      res == IF ok THEN "ok" ELSE "error"
  IN /\ fl.pc = "upsert"
     /\ dbRatings' = IF ok THEN [dbRatings EXCEPT ![fl.pid][fl.uid] = fl.value]
                     ELSE dbRatings
     /\ UNCHANGED <<dbProductRating, user, product, location>>
     /\ IF UpsertThrows(ok)
        THEN /\ Notify(c, "error")
             /\ flows' = [flows EXCEPT ![f] = [fl EXCEPT !.pc = "done", !.upsert = res]]
             /\ UNCHANGED <<rating, hasRated>>
        ELSE /\ rating' = [rating EXCEPT ![c] = Whole(fl.value)]
             /\ hasRated' = [hasRated EXCEPT ![c] = TRUE]
             /\ Notify(c, "success")
             /\ flows' = Disturb([flows EXCEPT ![f] =
                            [fl EXCEPT !.pc = "read", !.upsert = res,
                                       !.calls = Append(@, "read")]], f, ok)

(* the read of all rating rows of the product returns *)
ReadReturn(f, ok) ==
  UNCHANGED notRating /\
  LET fl == flows[f]
      c == fl.client
      res == IF ok THEN "ok" ELSE "error"
      row == dbRatings[fl.pid]
      n == IF ok THEN Cardinality(RowsOf(dbRatings, fl.pid)) ELSE 0
  IN /\ fl.pc = "read"
     /\ UNCHANGED <<dbVars, user, product, location, rating, hasRated>>
     /\ IF ReadThrows(ok)
        THEN /\ Notify(c, "error")
             /\ flows' = [flows EXCEPT ![f] = [fl EXCEPT !.pc = "done", !.read = res]]
        ELSE /\ UNCHANGED notes
             /\ IF HasRows(ok, n)
                THEN flows' = [flows EXCEPT ![f] =
                       [fl EXCEPT !.pc = "update", !.read = res, !.nRows = n,
                                  !.avg = AvgRating(row),
                                  !.calls = Append(@, "update")]]
                ELSE flows' = [flows EXCEPT ![f] =
                       [fl EXCEPT !.pc = "done", !.read = res, !.nRows = n]]

(* the update of products.rating returns; its result is not looked at *)
UpdateReturn(f, ok) ==
  UNCHANGED notRating /\
  LET fl == flows[f]
      res == IF ok THEN "ok" ELSE "error"
  IN /\ fl.pc = "update"
     /\ dbProductRating' = IF ok THEN [dbProductRating EXCEPT ![fl.pid] = fl.avg]
                           ELSE dbProductRating
     /\ flows' = Disturb([flows EXCEPT ![f] =
                   [fl EXCEPT !.pc = "done", !.update = res,
                              !.rowsAtWrite = dbRatings[fl.pid]]], f, ok)
     /\ UNCHANGED <<dbRatings, pageVars>>

(* the pages are open on product p1, already loaded *)
InitRating ==
  /\ dbRatings \in [ProductIds -> [Users -> {0} \cup StarChoices]]
  /\ \A u \in Users : dbRatings["p2"][u] = 0
  /\ dbProductRating = [p \in ProductIds |-> AvgRating(dbRatings[p])]
  /\ user \in [Clients -> Users \cup {NoUser}]
  /\ user["c1"] = "u1"
  /\ user["c2"] \in {"u2", NoUser}
  /\ product = [c \in Clients |-> "p1"]
  /\ hasRated = [c \in Clients |-> user[c] # NoUser /\ dbRatings["p1"][user[c]] # 0]
  /\ rating = [c \in Clients |->
       IF hasRated[c] THEN Whole(dbRatings["p1"][user[c]])
       ELSE IF dbProductRating["p1"][1] = 0 THEN Whole(DefaultRating)
       ELSE dbProductRating["p1"]]
  /\ location = [c \in Clients |-> "page"]
  /\ notes = [c \in Clients |-> <<>>]
  /\ flows = <<>>
  /\ dbImages = [p \in ProductIds |-> 0]
  /\ productId = [c \in Clients |-> "p1"]
  /\ loading = [c \in Clients |-> FALSE]
  /\ productImages = [c \in Clients |-> <<Image("p1", 0)>>]
  /\ currentImageIndex = [c \in Clients |-> 0]
  /\ fetches = <<>>
  /\ CardIdle
  /\ ReceiptIdle
  /\ PageCartIdle
  /\ InstallIdle

NextRating ==
  \/ \E c \in Clients, v \in StarChoices : HandleRating(c, v)
  \/ \E f \in FlowIds, ok \in BOOLEAN : UpsertReturn(f, ok)
  \/ \E f \in FlowIds, ok \in BOOLEAN : ReadReturn(f, ok)
  \/ \E f \in FlowIds, ok \in BOOLEAN : UpdateReturn(f, ok)

vars == <<ratingVars, fetchVars, cardVars, receiptVars, cartVars, installVars>>

SpecRating == InitRating /\ [][NextRating]_vars

(* ------------------------------------------------------------------ *)
(* Claims about handleRating                                            *)
(* ------------------------------------------------------------------ *)
CallOrder == <<"upsert", "read", "update">>

(* C1: the remote calls of a handleRating run are issued in the order   *)
(* upsert, read of the product's rating rows, update of products.rating; *)
(* the read is issued only after the upsert returned without error, and *)
(* the update only after the upsert returned without error and the read *)
(* returned without error with at least one row.                        *)
C1_CallOrder ==
  \A f \in FlowIds :
    LET fl == flows[f] IN
      /\ \E k \in 1..3 : fl.calls = SubSeq(CallOrder, 1, k)
      /\ Len(fl.calls) >= 2 => fl.upsert = "ok"
      /\ Len(fl.calls) = 3 => fl.upsert = "ok" /\ fl.read = "ok" /\ fl.nRows >= 1

C1_Witness ==
  \E f \in FlowIds : flows[f].calls = CallOrder /\ flows[f].pc = "done"

(* q is the arithmetic mean of the rows of one product *)
IsMeanOf(q, row) ==
  LET us == {u \in Users : row[u] # 0}
  IN us # {} /\ q[1] * Cardinality(us) = q[2] * SumRatings(row, us)

(* C2: a run whose three calls returned without error and that had no   *)
(* other writer wrote to products.rating the mean of the product's rows *)
(* as they were after its upsert; the user's row holds the value given. *)
C2_MeanWritten ==
  \A f \in FlowIds :
    LET fl == flows[f] IN
      (fl.update = "ok" /\ ~fl.disturbed) =>
         /\ IsMeanOf(fl.avg, fl.rowsAtWrite)
         /\ fl.rowsAtWrite[fl.uid] = fl.value

C2_Witness ==
  \E f \in FlowIds :
    /\ flows[f].update = "ok" /\ ~flows[f].disturbed
    /\ Cardinality({u \in Users : flows[f].rowsAtWrite[u] # 0}) = 2
    /\ flows[f].avg[2] # 1

AllDoneNoError ==
  /\ \A f \in FlowIds :
       flows[f].pc = "done" /\ flows[f].upsert = "ok"
         /\ flows[f].read = "ok" /\ flows[f].update = "ok"
  /\ \E f, g \in FlowIds : flows[f].client # flows[g].client

(* C10: when the runs of two or more clients on one product interleave  *)
(* and all complete without error, products.rating is the mean of the   *)
(* product's rating rows.                                               *)
C10_ConcurrentMean ==
  AllDoneNoError => IsMeanOf(dbProductRating["p1"], dbRatings["p1"])

(* the runs of page c whose upsert returned without error *)
RatedBy(c) == {g \in FlowIds : flows[g].client = c /\ flows[g].upsert = "ok"}

(* C11: when the upsert of a run returns an error the run ends there:   *)
(* that step leaves the page's rating and hasRated and the tables as    *)
(* they were and shows one error notification and nothing else; the run *)
(* has issued the upsert only (no read, no update), and an ended run    *)
(* does nothing more.                                                   *)
C11_UpsertErrorStops ==
  /\ [](\A f \in FlowIds :
         flows[f].upsert = "error" =>
           /\ flows[f].pc = "done"
           /\ flows[f].calls = <<"upsert">>
           /\ flows[f].read = Pending /\ flows[f].update = Pending)
  /\ [][\A f \in FlowIds :
         (flows[f].pc = "upsert" /\ flows'[f].upsert = "error") =>
           LET c == flows[f].client IN
             /\ rating' = rating /\ hasRated' = hasRated
             /\ dbRatings' = dbRatings /\ dbProductRating' = dbProductRating
             /\ notes'[c] = Append(notes[c], "error")
             /\ \A d \in Clients \ {c} : notes'[d] = notes[d]]_vars
  /\ [][\A f \in FlowIds : flows[f].pc = "done" => flows'[f] = flows[f]]_vars

C11_Witness ==
  \E f \in FlowIds :
    /\ flows[f].upsert = "error" /\ flows[f].pc = "done"
    /\ notes[flows[f].client] = <<"error">>
    /\ ~hasRated[flows[f].client]
    /\ Len(flows) = MaxFlows

(* C12: when the upsert of a run succeeded and its read fails, nothing  *)
(* is rolled back: the step of the failed read leaves rating, hasRated  *)
(* and the tables as they are and adds an error notification after the  *)
(* success notification already shown; hasRated is true, the rating is  *)
(* a submitted value (the run's own when the page had no other run);    *)
(* the run has issued no update, and products.rating changes only in    *)
(* the step of an update that returned without error.                   *)
C12_NoRollback ==
  /\ [](\A f \in FlowIds :
         (flows[f].upsert = "ok" /\ flows[f].read = "error") =>
           LET c == flows[f].client IN
             /\ flows[f].pc = "done"
             /\ flows[f].calls = <<"upsert", "read">>
             /\ flows[f].update = Pending
             /\ hasRated[c]
             /\ dbRatings[flows[f].pid][flows[f].uid] \in
                  {flows[g].value : g \in {h \in FlowIds : flows[h].upsert = "ok"}}
             /\ \E g \in RatedBy(c) : rating[c] = Whole(flows[g].value)
             /\ RatedBy(c) = {f} =>
                  /\ rating[c] = Whole(flows[f].value)
                  /\ \E k \in 1..(Len(notes[c]) - 1) :
                       notes[c][k] = "success" /\ notes[c][k + 1] = "error")
  /\ [][\A f \in FlowIds :
         (flows[f].pc = "read" /\ flows'[f].read = "error") =>
           LET c == flows[f].client IN
             /\ rating' = rating /\ hasRated' = hasRated
             /\ dbRatings' = dbRatings /\ dbProductRating' = dbProductRating
             /\ \E k \in 1..Len(notes[c]) : notes[c][k] = "success"
             /\ notes'[c] = Append(notes[c], "error")]_vars
  /\ [][dbProductRating' # dbProductRating =>
         \E f \in FlowIds :
           /\ flows[f].pc = "update" /\ flows'[f].update = "ok"
           /\ flows[f].read = "ok"]_vars

C12_Witness ==
  \E f \in FlowIds :
    LET c == flows[f].client IN
      /\ flows[f].upsert = "ok" /\ flows[f].read = "error" /\ flows[f].pc = "done"
      /\ notes[c] = <<"success", "error">>
      /\ rating[c] = Whole(flows[f].value) /\ hasRated[c]
      /\ dbRatings[flows[f].pid][flows[f].uid] = flows[f].value
      /\ ~IsMeanOf(dbProductRating[flows[f].pid], dbRatings[flows[f].pid])

(* ------------------------------------------------------------------ *)
(* ProductDetails.fetchProductDetails                                   *)
(* A run is a record: what its closure captured (client page,          *)
(* productId, user), the requests it has issued and not yet got back   *)
(* (pending), the requests it has issued so far (calls) and what each  *)
(* returned (res).                                                     *)
(* ------------------------------------------------------------------ *)
FetchCalls == {"product", "images", "userRating"}

(* the requests a run issues before its first await *)
IssuedAtStart == {"product"}

NewFetch(c, p) ==
  [client |-> c, pid |-> p, uid |-> user[c],
   pending |-> IssuedAtStart,
   calls |-> IF "images" \in IssuedAtStart THEN <<"product", "images">> ELSE <<"product">>,
   res |-> [k \in FetchCalls |-> Pending]]

FetchIds == 1..Len(fetches)

FetchDone(r) == fetches[r].pending = {}

(* if (productError) throw productError;  if (imagesError) throw imagesError; *)
ReadNeverThrows(ok) == FALSE
ProductThrows(ok) == ~ok
ImagesThrows(ok) == ~ok

(* finally { setLoading(false); } *)
NoFinally(ld, c) == ld
Finally(ld, c) == [ld EXCEPT ![c] = FALSE]

(* the stored rating taken as it is *)
RatingAsStored(q) == q

(* productData.rating || 5 *)
RatingOrDefault(q) == IF q[1] = 0 THEN Whole(DefaultRating) ELSE q

(* [productData.image, ...(imagesData?.map(item => item.image_url) || [])] *)
AllImages(p, n) == [i \in 1..(n + 1) |-> Image(p, i - 1)]

(* if (isLoggedIn && user) *)
LoggedIn(uid) == uid # NoUser

Called(run, call) == \E k \in 1..Len(run.calls) : run.calls[k] = call

Returned(run, call, ok) ==
  [run EXCEPT !.pending = @ \ {call},
              !.res = [@ EXCEPT ![call] = IF ok THEN "ok" ELSE "error"]]

Issue(run, call) ==
  [run EXCEPT !.pending = @ \cup {call}, !.calls = Append(@, call)]

(* useEffect(() => { if (productId) fetchProductDetails(); }, [productId]): *)
(* the route parameter changes to p and the effect starts a run           *)
Navigate(c, p) ==
  /\ location[c] = "page"
  /\ productId[c] # p
  /\ Len(fetches) < MaxFetches
  /\ productId' = [productId EXCEPT ![c] = p]
  /\ loading' = [loading EXCEPT ![c] = TRUE]
  /\ fetches' = Append(fetches, NewFetch(c, p))
  /\ UNCHANGED <<dbVars, dbImages, pageVars, productImages, currentImageIndex, notFetch>>

(* the read of the products row returns *)
ProductReturn(r, ok) ==
  LET run == fetches[r]
      c == run.client
      back == Returned(run, "product", ok)
  IN /\ "product" \in run.pending
     /\ UNCHANGED <<dbVars, dbImages, user, hasRated, location, notes,
                    productId, productImages, currentImageIndex, notFetch>>
     /\ IF ProductThrows(ok)
        THEN /\ loading' = Finally(loading, c)
             /\ fetches' = [fetches EXCEPT ![r] = back]
             /\ UNCHANGED <<product, rating>>
        ELSE /\ product' = [product EXCEPT ![c] = IF ok THEN run.pid ELSE NoProduct]
             /\ rating' = [rating EXCEPT ![c] = RatingOrDefault(dbProductRating[run.pid])]
             /\ fetches' = [fetches EXCEPT ![r] =
                  IF Called(run, "images") THEN back ELSE Issue(back, "images")]
             /\ UNCHANGED loading

(* the read of the product_images rows returns *)
ImagesReturn(r, ok) ==
  LET run == fetches[r]
      c == run.client
      back == Returned(run, "images", ok)
  IN /\ "images" \in run.pending
     /\ UNCHANGED <<dbVars, dbImages, pageVars, productId, currentImageIndex, notFetch>>
     /\ IF ImagesThrows(ok)
        THEN /\ loading' = Finally(loading, c)
             /\ fetches' = [fetches EXCEPT ![r] = back]
             /\ UNCHANGED productImages
        ELSE /\ productImages' = [productImages EXCEPT ![c] =
                                    AllImages(run.pid, IF ok THEN dbImages[run.pid] ELSE 0)]
             /\ IF LoggedIn(run.uid)
                THEN /\ fetches' = [fetches EXCEPT ![r] = Issue(back, "userRating")]
                     /\ UNCHANGED loading
                ELSE /\ fetches' = [fetches EXCEPT ![r] = back]
                     /\ loading' = Finally(loading, c)

(* the read of the user's own product_ratings rows returns *)
UserRatingReturn(r, ok) ==
  LET run == fetches[r]
      c == run.client
      mine == dbRatings[run.pid][run.uid]
  IN /\ "userRating" \in run.pending
     /\ UNCHANGED <<dbVars, dbImages, user, product, location, notes,
                    productId, productImages, currentImageIndex, notFetch>>
     /\ fetches' = [fetches EXCEPT ![r] = Returned(run, "userRating", ok)]
     /\ loading' = Finally(loading, c)
     /\ IF ok /\ mine # 0
        THEN /\ hasRated' = [hasRated EXCEPT ![c] = TRUE]
             /\ rating' = [rating EXCEPT ![c] = Whole(mine)]
        ELSE UNCHANGED <<hasRated, rating>>

(* the page below the spinner and the "not found" view is rendered *)
Displayed(c) == ~loading[c] /\ product[c] # NoProduct

(* the arrows and the thumbnails are rendered: productImages.length > 1 *)
GalleryShown(c) == Displayed(c) /\ Len(productImages[c]) > 1

(* setCurrentImageIndex((prev) => (prev + 1) % productImages.length) *)
NextImage(c) ==
  /\ location[c] = "page" /\ GalleryShown(c)
  /\ currentImageIndex' = [currentImageIndex EXCEPT ![c] = (@ + 1) % Len(productImages[c])]
  /\ UNCHANGED <<dbVars, dbImages, pageVars, productId, loading, productImages,
                 fetches, notFetch>>

(* setCurrentImageIndex((prev) => (prev - 1 + productImages.length) % productImages.length) *)
PrevImage(c) ==
  /\ location[c] = "page" /\ GalleryShown(c)
  /\ currentImageIndex' = [currentImageIndex EXCEPT ![c] =
        (@ - 1 + Len(productImages[c])) % Len(productImages[c])]
  /\ UNCHANGED <<dbVars, dbImages, pageVars, productId, loading, productImages,
                 fetches, notFetch>>

(* onClick={() => setCurrentImageIndex(index)} of thumbnail number index *)
Thumbnail(c, index) ==
  /\ location[c] = "page" /\ GalleryShown(c)
  /\ index \in 0..(Len(productImages[c]) - 1)
  /\ currentImageIndex' = [currentImageIndex EXCEPT ![c] = index]
  /\ UNCHANGED <<dbVars, dbImages, pageVars, productId, loading, productImages,
                 fetches, notFetch>>

FetchClients == {"c1"}

(* the page of c1 has mounted on /product/p1 and its effect has started *)
(* the first run; the other page stays as it was constructed           *)
InitFetch ==
  /\ dbImages \in [ProductIds -> 0..MaxExtraImages]
  /\ dbRatings = [p \in ProductIds |-> [u \in Users |->
                    IF p = "p1" /\ u = "u1" THEN 2 ELSE 0]]
  /\ dbProductRating = [p \in ProductIds |-> IF p = "p1" THEN <<0, 1>> ELSE <<7, 2>>]
  /\ user \in [Clients -> Users \cup {NoUser}]
  /\ user["c1"] \in {"u1", NoUser} /\ user["c2"] = NoUser
  /\ product = [c \in Clients |-> NoProduct]
  /\ rating = [c \in Clients |-> Whole(0)]
  /\ hasRated = [c \in Clients |-> FALSE]
  /\ location = [c \in Clients |-> "page"]
  /\ notes = [c \in Clients |-> <<>>]
  /\ flows = <<>>
  /\ productId = [c \in Clients |-> "p1"]
  /\ loading = [c \in Clients |-> TRUE]
  /\ productImages = [c \in Clients |-> <<>>]
  /\ currentImageIndex = [c \in Clients |-> 0]
  /\ fetches = <<NewFetch("c1", "p1")>>
  /\ CardIdle
  /\ ReceiptIdle
  /\ PageCartIdle
  /\ InstallIdle

NextFetch ==
  \/ \E c \in FetchClients, p \in ProductIds : Navigate(c, p)
  \/ \E r \in FetchIds, ok \in BOOLEAN : ProductReturn(r, ok)
  \/ \E r \in FetchIds, ok \in BOOLEAN : ImagesReturn(r, ok)
  \/ \E r \in FetchIds, ok \in BOOLEAN : UserRatingReturn(r, ok)
  \/ \E c \in FetchClients : NextImage(c)
  \/ \E c \in FetchClients : PrevImage(c)
  \/ \E c \in FetchClients, i \in 0..MaxExtraImages : Thumbnail(c, i)

SpecFetch == InitFetch /\ [][NextFetch]_vars

(* every remote call eventually returns *)
FetchReturns ==
  \E r \in FetchIds, ok \in BOOLEAN :
    ProductReturn(r, ok) \/ ImagesReturn(r, ok) \/ UserRatingReturn(r, ok)

(* one catalogue is enough for the runs to end: p1 has one product_images *)
(* row, p2 has none                                                      *)
InitFairFetch ==
  /\ InitFetch
  /\ dbImages = [p \in ProductIds |-> IF p = "p1" THEN 1 ELSE 0]

FairSpecFetch == InitFairFetch /\ [][NextFetch]_vars /\ WF_vars(FetchReturns)

(* ------------------------------------------------------------------ *)
(* Claims about fetchProductDetails and the gallery                     *)
(* ------------------------------------------------------------------ *)
FetchOrder == <<"product", "images", "userRating">>

(* C3: a run of fetchProductDetails has at most one request in flight;  *)
(* it reads the product first, the images only after the product read   *)
(* succeeded, the user's rating only after the images read succeeded    *)
(* and only for a logged-in user; a failed product or images read ends  *)
(* the run with no later read issued.                                   *)
C3_Sequential ==
  \A r \in FetchIds :
    LET run == fetches[r] IN
      /\ Cardinality(run.pending) <= 1
      /\ \E k \in 1..3 : run.calls = SubSeq(FetchOrder, 1, k)
      /\ Called(run, "images") => run.res["product"] = "ok"
      /\ Called(run, "userRating") => run.res["images"] = "ok" /\ LoggedIn(run.uid)
      /\ run.res["product"] = "error" => run.calls = <<"product">> /\ run.pending = {}
      /\ run.res["images"] = "error" => run.calls = <<"product", "images">> /\ run.pending = {}

C3_Witness ==
  /\ \E r \in FetchIds : fetches[r].calls = FetchOrder /\ FetchDone(r)
  /\ \E r \in FetchIds : fetches[r].res["images"] = "error"
  /\ \E r \in FetchIds : ~FetchDone(r)

(* C4: loading is set when a run starts, a run that ends sets it to      *)
(* false on each of its paths, and when every remote call eventually    *)
(* returns every run ends.                                              *)
C4_SpinnerClears ==
  /\ [][\A c \in FetchClients :
          Len(fetches') > Len(fetches) /\ fetches'[Len(fetches')].client = c
            => loading'[c]]_vars
  /\ [][\A r \in FetchIds :
          ~FetchDone(r) /\ fetches'[r].pending = {} => ~loading'[fetches[r].client]]_vars
  /\ \A r \in 1..MaxFetches :
       (r \in FetchIds) ~> (r \in FetchIds /\ FetchDone(r))

(* every way a run ends has been taken, the last run ended and the spinner is off *)
C4_Witness ==
  /\ \E r \in FetchIds : fetches[r].res["product"] = "error"
  /\ \E r \in FetchIds : fetches[r].res["images"] = "error"
  /\ \E r \in FetchIds : fetches[r].res["userRating"] # Pending
  /\ \A r \in FetchIds : FetchDone(r)
  /\ ~loading["c1"]

ValidIndex(c) ==
  0 <= currentImageIndex[c] /\ currentImageIndex[c] < Len(productImages[c])

(* C9: whenever the product page is displayed the gallery index is a    *)
(* valid index of productImages.                                        *)
C9_IndexValid ==
  \A c \in FetchClients : Displayed(c) => ValidIndex(c)

(* the runs of page c whose product read returned without error: the  *)
(* only runs that set product, rating, productImages or hasRated       *)
Loaded(c) == {r \in FetchIds : fetches[r].client = c /\ fetches[r].res["product"] = "ok"}

(* every run of page c has ended *)
Settled(c) == \A g \in FetchIds : fetches[g].client = c => FetchDone(g)

(* the user's own row was read: the read was issued, returned without   *)
(* error and the user has a row for the product                         *)
OwnRow(run) ==
  /\ run.res["userRating"] = "ok"
  /\ dbRatings[run.pid][run.uid] # 0

(* the product's stored rating, 5 when it is missing or 0 *)
StoredOrFive(p) ==
  IF dbProductRating[p][1] = 0 THEN <<5, 1>> ELSE dbProductRating[p]

(* C13: a run whose product and images reads succeeded and that is the  *)
(* page's only run to have read a product leaves, once the page's runs  *)
(* have ended,                                                          *)
(* the user's own rating displayed and hasRated true when its read of   *)
(* the user's rows succeeded with a row, and otherwise the product's    *)
(* stored rating, 5 when that is missing or 0, and hasRated as it was;  *)
(* the product and all its images are displayed.  In every interleaving *)
(* the step in which the user-rating read returns an error, or no row,  *)
(* leaves product, images, rating and hasRated as they are and ends the *)
(* run with the page displayed; the step in which it returns a row sets *)
(* the rating to that row's and hasRated.                               *)
C13_DisplayedRating ==
  /\ [](\A r \in FetchIds :
         LET run == fetches[r]
             c == run.client
         IN (Settled(c) /\ run.res["images"] = "ok" /\ Loaded(c) = {r}) =>
              /\ product[c] = run.pid
              /\ Len(productImages[c]) = dbImages[run.pid] + 1
              /\ productImages[c][1] = Image(run.pid, 0)
              /\ Displayed(c)
              /\ IF OwnRow(run)
                 THEN rating[c] = <<dbRatings[run.pid][run.uid], 1>> /\ hasRated[c]
                 ELSE rating[c] = StoredOrFive(run.pid) /\ ~hasRated[c])
  /\ [][\A r \in FetchIds :
         LET run == fetches[r]
             c == run.client
         IN ("userRating" \in run.pending /\ "userRating" \notin fetches'[r].pending) =>
              /\ run.uid # NoUser
              /\ product' = product /\ productImages' = productImages
              /\ ~loading'[c] /\ product'[c] # NoProduct
              /\ IF fetches'[r].res["userRating"] = "ok" /\ dbRatings[run.pid][run.uid] # 0
                 THEN rating'[c] = <<dbRatings[run.pid][run.uid], 1>> /\ hasRated'[c]
                 ELSE rating' = rating /\ hasRated' = hasRated]_vars

(* the three outcomes: the user's row, the stored rating, the default,  *)
(* and a failed user-rating read                                        *)
C13_Witness ==
  \E r \in FetchIds :
    LET run == fetches[r]
        c == run.client
    IN /\ Settled(c) /\ run.res["images"] = "ok" /\ Loaded(c) = {r}
       /\ run.res["userRating"] = "error"
       /\ run.pid = "p2" /\ rating[c] = <<7, 2>> /\ ~hasRated[c]
       /\ Len(productImages[c]) > 1

NoneInFlight ==
  /\ \A r \in FetchIds : FetchDone(r)
  /\ \A f \in FlowIds : ~InFlight(flows[f])

(* C14: once no fetch is in flight the displayed product is null or the *)
(* product whose id is the current productId.                           *)
C14_CurrentProduct ==
  \A c \in FetchClients :
    NoneInFlight => product[c] \in {NoProduct, productId[c]}

(* C15: whenever no fetch and no rating run is in flight, hasRated is   *)
(* true only if the logged-in user has a rating row for the product     *)
(* identified by productId.                                             *)
C15_HasRatedRow ==
  \A c \in FetchClients :
    (NoneInFlight /\ hasRated[c]) =>
       user[c] # NoUser /\ dbRatings[productId[c]][user[c]] # 0

(* ------------------------------------------------------------------ *)
(* Texts are sequences of characters, so that encodeURIComponent is     *)
(* computed character by character.                                    *)
(* ------------------------------------------------------------------ *)
(* "https://ulishastore.netlify.app/product/" *)
LinkBase ==
  <<"h", "t", "t", "p", "s", ":", "/", "/", "u", "l", "i", "s", "h", "a",
    "s", "t", "o", "r", "e", ".", "n", "e", "t", "l", "i", "f", "y", ".",
    "a", "p", "p", "/", "p", "r", "o", "d", "u", "c", "t", "/">>

(* "Check out this product: " *)
TextBase ==
  <<"C", "h", "e", "c", "k", " ", "o", "u", "t", " ", "t", "h", "i", "s",
    " ", "p", "r", "o", "d", "u", "c", "t", ":", " ">>

(* "https://www.facebook.com/sharer/sharer.php?u=" *)
FacebookBase ==
  <<"h", "t", "t", "p", "s", ":", "/", "/", "w", "w", "w", ".", "f", "a",
    "c", "e", "b", "o", "o", "k", ".", "c", "o", "m", "/", "s", "h", "a",
    "r", "e", "r", "/", "s", "h", "a", "r", "e", "r", ".", "p", "h", "p",
    "?", "u", "=">>

(* "https://twitter.com/intent/tweet?text=" *)
TwitterBase ==
  <<"h", "t", "t", "p", "s", ":", "/", "/", "t", "w", "i", "t", "t", "e",
    "r", ".", "c", "o", "m", "/", "i", "n", "t", "e", "n", "t", "/", "t",
    "w", "e", "e", "t", "?", "t", "e", "x", "t", "=">>

(* "&url=" *)
TwitterUrlKey ==
  <<"&", "u", "r", "l", "=">>

(* "https://wa.me/?text=" *)
WhatsappBase ==
  <<"h", "t", "t", "p", "s", ":", "/", "/", "w", "a", ".", "m", "e", "/",
    "?", "t", "e", "x", "t", "=">>


Platforms == {"facebook", "twitter", "whatsapp"}

(* the characters encodeURIComponent escapes, among those the texts use, *)
(* with their UTF-8 percent escapes; every other character used is an   *)
(* unreserved one (A-Z a-z 0-9 - _ . ! ~ * ' ( )) and is kept            *)
Escapes ==
  { <<":", <<"%", "3", "A">> >>, <<"/", <<"%", "2", "F">> >>,
    <<" ", <<"%", "2", "0">> >>, <<"&", <<"%", "2", "6">> >>,
    <<"=", <<"%", "3", "D">> >>, <<"?", <<"%", "3", "F">> >>,
    <<"%", <<"%", "2", "5">> >> }

PlainChar(c) == <<c>>
EncodeChar(c) ==
  IF \E e \in Escapes : e[1] = c
  THEN (CHOOSE e \in Escapes : e[1] = c)[2]
  ELSE <<c>>

RECURSIVE EncodeURIComponent(_)
EncodeURIComponent(t) ==
  IF Len(t) = 0 THEN <<>>
  ELSE IF Len(t) = 1 THEN EncodeChar(t[1])
  ELSE LET m == Len(t) \div 2
       IN EncodeURIComponent(SubSeq(t, 1, m))
            \o EncodeURIComponent(SubSeq(t, m + 1, Len(t)))

(* getProductLink of ProductCard *)
GetProductLink(p) == LinkBase \o p.id

(* `Check out this product: ${product.name}` *)
ShareText(p) == TextBase \o p.name

(* the switch of shareToSocial *)
ShareUrl(platform, p) ==
  CASE platform = "facebook" -> FacebookBase \o EncodeURIComponent(GetProductLink(p))
    [] platform = "twitter" ->
         TwitterBase \o EncodeURIComponent(ShareText(p))
           \o TwitterUrlKey \o EncodeURIComponent(GetProductLink(p))
    [] platform = "whatsapp" ->
         WhatsappBase \o EncodeURIComponent(ShareText(p) \o <<" ">> \o GetProductLink(p))

(* ------------------------------------------------------------------ *)
(* ProductCard                                                          *)
(* ------------------------------------------------------------------ *)
CardProducts ==
  { [id |-> <<"p", "1">>, name |-> <<"T", "e", "a">>],
    [id |-> <<"7", "-", "a">>, name |-> <<"A", "&", "u", "r", "l", "=", "x">>],
    [id |-> <<"4", "2">>, name |-> <<"5", "%", " ", "o", "f", "f", "?">>] }

Mounted == route = "list"

Quantum == CopiedDelay \div 2    \* the longest step of time the model takes

Timer(kind, n, left) == [kind |-> kind, note |-> n, left |-> left]

(* showNotification: the element is appended to the body and the fade   *)
(* timer is set; the new element is number Len(notifications) + 1       *)
NotificationElement(type, msg) ==
  [type |-> type, msg |-> msg, cls |-> "animate-fade-in", removals |-> 0]

ShowNotification(type, msg, more) ==
  LET n == Len(notifications) + 1
  IN /\ notifications' = Append(notifications, NotificationElement(type, msg))
     /\ body' = body \cup {n}
     /\ timers' = timers \cup {Timer("fade", n, FadeDelay)} \cup more

(* setTimeout(() => setLinkCopied(false), 2000), set with notification n *)
NoCopiedTimer(n) == {}
CopiedTimer(n) == {Timer("reset", n, CopiedDelay)}

(* the inner setTimeout of showNotification, set when the fade timer fires *)
NoRemoveTimer(n) == {}
RemoveTimer(n) == {Timer("remove", n, RemoveDelay)}

(* onClick={() => setShowShareOptions(!showShareOptions)} *)
ToggleShare ==
  /\ Mounted
  /\ toggles < MaxToggles
  /\ showShareOptions' = ~showShareOptions
  /\ toggles' = toggles + 1
  /\ UNCHANGED <<cardProduct, cardLoggedIn, route, linkCopied, notifications, body,
                 timers, clipboardPending, cartPending, windows, shareLog, attempts,
                 copyResults, domErrors, notCard>>

(* the share menu is rendered under showShareOptions *)
ShareToSocial(platform) ==
  /\ Mounted /\ showShareOptions
  /\ Len(windows) < MaxShares
  /\ windows' = Append(windows, ShareUrl(platform, cardProduct))
  /\ shareLog' = Append(shareLog, platform)
  /\ showShareOptions' = FALSE
  /\ toggles' = 0
  /\ UNCHANGED <<cardProduct, cardLoggedIn, route, linkCopied, notifications, body,
                 timers, clipboardPending, cartPending, attempts, copyResults,
                 domErrors, notCard>>

(* copyToClipboard: navigator.clipboard.writeText(link) returns a promise *)
CopyToClipboard ==
  /\ Mounted /\ showShareOptions
  /\ attempts < MaxAttempts
  /\ attempts' = attempts + 1
  /\ clipboardPending' = clipboardPending + 1
  /\ UNCHANGED <<cardProduct, cardLoggedIn, route, showShareOptions, linkCopied,
                 notifications, body, timers, cartPending, windows, shareLog, toggles,
                 copyResults, domErrors, notCard>>

(* .then / .catch of copyToClipboard; a state setter of an unmounted    *)
(* component does nothing                                              *)
ClipboardSettles(ok) ==
  /\ clipboardPending > 0
  /\ clipboardPending' = clipboardPending - 1
  /\ copyResults' = Append(copyResults, ok)
  /\ IF ok
     THEN /\ linkCopied' = IF Mounted THEN TRUE ELSE linkCopied
          /\ ShowNotification("success", "copied", CopiedTimer(Len(notifications) + 1))
     ELSE /\ UNCHANGED linkCopied
          /\ ShowNotification("error", "copyFailed", {})
  /\ UNCHANGED <<cardProduct, cardLoggedIn, route, showShareOptions, cartPending,
                 windows, shareLog, toggles, attempts, domErrors, notCard>>

(* handleAddToCart of ProductCard; navigate('/login') unmounts the card, *)
(* whose state is then gone: a new card starts from useState(false)     *)
HandleAddToCartCard ==
  /\ Mounted
  /\ IF ~cardLoggedIn
     THEN /\ route' = "/login"
          /\ showShareOptions' = FALSE
          /\ linkCopied' = FALSE
          /\ UNCHANGED <<cartPending, attempts>>
     ELSE /\ attempts < MaxAttempts
          /\ attempts' = attempts + 1
          /\ cartPending' = cartPending + 1
          /\ UNCHANGED <<route, showShareOptions, linkCopied>>
  /\ UNCHANGED <<cardProduct, cardLoggedIn, notifications, body, timers,
                 clipboardPending, windows, shareLog, toggles, copyResults,
                 domErrors, notCard>>

(* onClick={() => navigate(`/product/${product.id}`)} of the image and  *)
(* of the name: the list, and the card with it, is unmounted            *)
OpenProduct ==
  /\ Mounted
  /\ route' = "/product"
  /\ showShareOptions' = FALSE
  /\ linkCopied' = FALSE
  /\ UNCHANGED <<cardProduct, cardLoggedIn, notifications, body, timers,
                 clipboardPending, cartPending, windows, shareLog, toggles, attempts,
                 copyResults, domErrors, notCard>>

(* await addToCart(product) returns or throws *)
CartSettles(ok) ==
  /\ cartPending > 0
  /\ cartPending' = cartPending - 1
  /\ IF ok THEN ShowNotification("success", "added", {})
     ELSE ShowNotification("error", "addFailed", {})
  /\ UNCHANGED <<cardProduct, cardLoggedIn, route, showShareOptions, linkCopied,
                 clipboardPending, windows, shareLog, toggles, attempts, copyResults,
                 domErrors, notCard>>

MinLeft == CHOOSE m \in {t.left : t \in timers} : \A t \in timers : m <= t.left

(* time passes, up to the next timer that is due *)
Tick ==
  /\ timers # {}
  /\ \A t \in timers : t.left > 0
  /\ LET d == IF MinLeft < Quantum THEN MinLeft ELSE Quantum
     IN timers' = {Timer(t.kind, t.note, t.left - d) : t \in timers}
  /\ UNCHANGED <<cardProduct, cardLoggedIn, route, showShareOptions, linkCopied,
                 notifications, body, clipboardPending, cartPending, windows, shareLog,
                 toggles, attempts, copyResults, domErrors, notCard>>

(* a due setTimeout callback runs *)
FireTimer(t) ==
  /\ t \in timers /\ t.left = 0
  /\ UNCHANGED <<cardProduct, cardLoggedIn, route, showShareOptions, clipboardPending,
                 cartPending, windows, shareLog, toggles, attempts, copyResults, notCard>>
  /\ CASE t.kind = "fade" ->
            \* notification.classList.add('animate-fade-out'); setTimeout(..., 300)
            /\ notifications' = [notifications EXCEPT ![t.note].cls = "animate-fade-out"]
            /\ timers' = (timers \ {t}) \cup RemoveTimer(t.note)
            /\ UNCHANGED <<body, linkCopied, domErrors>>
       [] t.kind = "remove" ->
            \* document.body.removeChild(notification) throws for a non-child
            /\ timers' = timers \ {t}
            /\ IF t.note \in body
               THEN /\ body' = body \ {t.note}
                    /\ notifications' = [notifications EXCEPT ![t.note].removals = @ + 1]
                    /\ UNCHANGED domErrors
               ELSE /\ domErrors' = domErrors + 1
                    /\ UNCHANGED <<body, notifications>>
            /\ UNCHANGED linkCopied
       [] t.kind = "reset" ->
            \* setLinkCopied(false)
            /\ timers' = timers \ {t}
            /\ linkCopied' = IF Mounted THEN FALSE ELSE linkCopied
            /\ UNCHANGED <<body, notifications, domErrors>>

(* a card of the product list has mounted *)
InitCard ==
  /\ cardProduct \in CardProducts
  /\ cardLoggedIn \in BOOLEAN
  /\ route = "list"
  /\ showShareOptions = FALSE
  /\ linkCopied = FALSE
  /\ notifications = <<>>
  /\ body = {}
  /\ timers = {}
  /\ clipboardPending = 0
  /\ cartPending = 0
  /\ windows = <<>>
  /\ shareLog = <<>>
  /\ toggles = 0
  /\ attempts = 0
  /\ copyResults = <<>>
  /\ domErrors = 0
  \* the ProductDetails pages and the backend are not involved
  /\ dbRatings = [p \in ProductIds |-> [u \in Users |-> 0]]
  /\ dbProductRating = [p \in ProductIds |-> <<0, 1>>]
  /\ dbImages = [p \in ProductIds |-> 0]
  /\ user = [c \in Clients |-> NoUser]
  /\ product = [c \in Clients |-> NoProduct]
  /\ rating = [c \in Clients |-> Whole(0)]
  /\ hasRated = [c \in Clients |-> FALSE]
  /\ location = [c \in Clients |-> "page"]
  /\ notes = [c \in Clients |-> <<>>]
  /\ flows = <<>>
  /\ productId = [c \in Clients |-> "p1"]
  /\ loading = [c \in Clients |-> TRUE]
  /\ productImages = [c \in Clients |-> <<>>]
  /\ currentImageIndex = [c \in Clients |-> 0]
  /\ fetches = <<>>
  /\ ReceiptIdle
  /\ PageCartIdle
  /\ InstallIdle

NextCard ==
  \/ ToggleShare
  \/ \E pf \in Platforms : ShareToSocial(pf)
  \/ CopyToClipboard
  \/ \E ok \in BOOLEAN : ClipboardSettles(ok)
  \/ OpenProduct
  \/ Tick
  \/ \E t \in timers : FireTimer(t)

(* the share menu and the copy button do not depend on the login *)
InitShare ==
  /\ InitCard
  /\ ~cardLoggedIn

SpecCard == InitShare /\ [][NextCard]_vars

(* the card with its add-to-cart button alone *)
InitCart ==
  /\ InitCard
  /\ cardProduct.id = <<"p", "1">>

NextCart ==
  \/ HandleAddToCartCard
  \/ \E ok \in BOOLEAN : CartSettles(ok)
  \/ Tick
  \/ \E t \in timers : FireTimer(t)

SpecCart == InitCart /\ [][NextCart]_vars

(* one card; time passes and a due timer fires *)
InitFairCard ==
  /\ InitShare
  /\ cardProduct.id = <<"p", "1">>

FairSpecCard ==
  /\ InitFairCard
  /\ [][NextCard]_vars
  /\ WF_vars(Tick) /\ WF_vars(\E t \in timers : FireTimer(t))

(* ------------------------------------------------------------------ *)
(* Claims about the notifications and the copy button                   *)
(* ------------------------------------------------------------------ *)
NoteIds == 1..Len(notifications)

OwnTimers(n) == {t \in timers : t.note = n /\ t.kind \in {"fade", "remove"}}

(* C5: every notification element appended to the body is eventually    *)
(* removed from it, once, by its own timers (fade mark, then removal);  *)
(* none stays and none is removed twice.                                *)
C5_Transient ==
  /\ [](\A n \in NoteIds :
          /\ notifications[n].removals <= 1
          /\ (n \in body) = (notifications[n].removals = 0)
          /\ n \in body => Cardinality(OwnTimers(n)) = 1)
  /\ [](domErrors = 0)
  /\ [][\A n \in NoteIds :
          n \in body /\ n \notin body' =>
            /\ Timer("remove", n, 0) \in timers
            /\ notifications[n].cls = "animate-fade-out"]_vars
  /\ [][\A n \in 1..Len(notifications') :
          n \notin NoteIds => n \in body' /\ Timer("fade", n, FadeDelay) \in timers']_vars
  /\ [][\A n \in NoteIds :
          notifications'[n].cls # notifications[n].cls =>
            Timer("fade", n, 0) \in timers /\ Timer("remove", n, RemoveDelay) \in timers']_vars
  /\ \A n \in 1..MaxAttempts : (n \in NoteIds /\ n \in body) ~> (n \in NoteIds /\ n \notin body)

(* two notifications overlapped and both are gone *)
C5_Witness ==
  /\ Len(notifications) >= 2
  /\ body = {}
  /\ \A n \in NoteIds : notifications[n].removals = 1
  /\ \E n \in NoteIds : notifications[n].type = "error"

(* C6: a clipboard write that succeeds sets linkCopied, shows a success  *)
(* notification and sets a timer that resets linkCopied 2000 ms later;  *)
(* one that fails leaves linkCopied as it is and shows an error         *)
(* notification; with no timer and no write pending linkCopied is false. *)
C6_CopyLink ==
  /\ [][Len(copyResults') > Len(copyResults) =>
          LET ok == copyResults'[Len(copyResults')]
              n == Len(notifications')
          IN /\ n = Len(notifications) + 1
             /\ n \in body'
             /\ IF ok
                THEN /\ Mounted => linkCopied'
                     /\ notifications'[n].type = "success"
                     /\ Timer("reset", n, CopiedDelay) \in timers'
                ELSE /\ linkCopied' = linkCopied
                     /\ notifications'[n].type = "error"
                     /\ ~\E t \in timers' : t.kind = "reset" /\ t.note = n]_vars
  /\ [][\A t \in timers :
          (t.kind = "reset" /\ ~\E u \in timers' : u.kind = "reset" /\ u.note = t.note)
            => t.left = 0 /\ ~linkCopied']_vars
  /\ [](timers = {} /\ clipboardPending = 0 => ~linkCopied)

(* two overlapping copies, one failed, all timers have fired *)
C6_Witness ==
  /\ Mounted
  /\ \E i, j \in 1..Len(copyResults) : copyResults[i] /\ ~copyResults[j]
  /\ timers = {} /\ clipboardPending = 0

(* ------------------------------------------------------------------ *)
(* Claims about the share menu: reading a share url back                *)
(* ------------------------------------------------------------------ *)
(* "https://www.facebook.com/" *)
FacebookSite ==
  <<"h", "t", "t", "p", "s", ":", "/", "/", "w", "w", "w", ".", "f", "a",
    "c", "e", "b", "o", "o", "k", ".", "c", "o", "m", "/">>

(* "https://twitter.com/" *)
TwitterSite ==
  <<"h", "t", "t", "p", "s", ":", "/", "/", "t", "w", "i", "t", "t", "e",
    "r", ".", "c", "o", "m", "/">>

(* "https://wa.me/" *)
WhatsappSite ==
  <<"h", "t", "t", "p", "s", ":", "/", "/", "w", "a", ".", "m", "e", "/">>


HasPrefix(t, pre) == Len(t) >= Len(pre) /\ SubSeq(t, 1, Len(pre)) = pre

(* the position of the first c in t, 0 when there is none *)
FirstAt(t, c) ==
  IF \E k \in 1..Len(t) : t[k] = c
  THEN CHOOSE k \in 1..Len(t) : t[k] = c /\ \A j \in 1..(k - 1) : t[j] # c
  ELSE 0

Before(t, c) == IF FirstAt(t, c) = 0 THEN t ELSE SubSeq(t, 1, FirstAt(t, c) - 1)
After(t, c) == IF FirstAt(t, c) = 0 THEN <<>> ELSE SubSeq(t, FirstAt(t, c) + 1, Len(t))

RECURSIVE SplitOn(_, _)
SplitOn(t, c) ==
  IF FirstAt(t, c) = 0 THEN <<t>> ELSE <<Before(t, c)>> \o SplitOn(After(t, c), c)

(* percent-decoding: every % must open one of the escapes (their two    *)
(* following characters are hexadecimal digits, never a %); a malformed *)
(* escape decodes to no text at all                                     *)
WellFormed(t) ==
  \A k \in 1..Len(t) :
    t[k] = "%" => /\ k + 2 <= Len(t)
                  /\ \E e \in Escapes : e[2] = SubSeq(t, k, k + 2)

DecodeAt(t, k) ==
  IF t[k] = "%"
  THEN <<(CHOOSE e \in Escapes : e[2] = SubSeq(t, k, k + 2))[1]>>
  ELSE IF (k >= 2 /\ t[k - 1] = "%") \/ (k >= 3 /\ t[k - 2] = "%")
       THEN <<>>
       ELSE <<t[k]>>

RECURSIVE DecodeRange(_, _, _)
DecodeRange(t, lo, hi) ==
  IF lo > hi THEN <<>>
  ELSE IF lo = hi THEN DecodeAt(t, lo)
  ELSE LET m == (lo + hi) \div 2
       IN DecodeRange(t, lo, m) \o DecodeRange(t, m + 1, hi)

DecodeURIComponent(t) ==
  IF WellFormed(t) THEN DecodeRange(t, 1, Len(t)) ELSE <<"malformed">>

(* the decoded values of the query parameter key of url *)
QueryValues(url, key) ==
  LET parts == SplitOn(After(url, "?"), "&")
  IN {DecodeURIComponent(After(parts[k], "=")) :
        k \in {j \in 1..Len(parts) : Before(parts[j], "=") = key}}

CarriesLink(platform, url, p) ==
  LET link == LinkBase \o p.id
      text == TextBase \o p.name
  IN CASE platform = "facebook" ->
            HasPrefix(url, FacebookSite) /\ QueryValues(url, <<"u">>) = {link}
       [] platform = "twitter" ->
            /\ HasPrefix(url, TwitterSite)
            /\ QueryValues(url, <<"u", "r", "l">>) = {link}
            /\ QueryValues(url, <<"t", "e", "x", "t">>) = {text}
       [] platform = "whatsapp" ->
            /\ HasPrefix(url, WhatsappSite)
            /\ QueryValues(url, <<"t", "e", "x", "t">>) = {text \o <<" ">> \o link}

(* C7: every shareToSocial(platform) opened one window, on the chosen    *)
(* platform's site, whose query carries the product link and no other;  *)
(* it closes the share menu; copyToClipboard leaves the menu as it is;  *)
(* the menu is open exactly when the share button has been clicked an   *)
(* odd number of times since the last shareToSocial.                    *)
C7_ShareMenu ==
  /\ [](Mounted => (showShareOptions = (toggles % 2 = 1)))
  /\ [][Len(shareLog') > Len(shareLog) =>
          /\ Len(windows') = Len(windows) + 1
          /\ CarriesLink(shareLog'[Len(shareLog')], windows'[Len(windows')], cardProduct)
          /\ ~showShareOptions']_vars
  /\ [][attempts' > attempts \/ clipboardPending' < clipboardPending =>
          showShareOptions' = showShareOptions]_vars

(* a product whose name holds "&url=" was shared on twitter after the    *)
(* menu had been closed and opened again and a link had been copied    *)
C7_Witness ==
  /\ Len(shareLog) = 1 /\ shareLog[1] = "twitter"
  /\ cardProduct.id = <<"7", "-", "a">>
  /\ attempts > 0
  /\ toggles = 1 /\ showShareOptions

(* ------------------------------------------------------------------ *)
(* OrderReceipt                                                         *)
(* ------------------------------------------------------------------ *)
(* "order-receipt-" *)
FilePrefix ==
  <<"o", "r", "d", "e", "r", "-", "r", "e", "c", "e", "i", "p", "t", "-">>

(* ".html" *)
FileSuffix ==
  <<".", "h", "t", "m", "l">>


Orders ==
  { [id |-> <<"3", "f", "2", "a", "9", "c", "1", "e", "-", "7", "7">>, status |-> "paid"],
    [id |-> <<"a", "b", "1", "2">>, status |-> "pending"] }

(* String.prototype.substring(from, to), 0-based, to exclusive and clamped *)
Substring(t, from, to) ==
  SubSeq(t, from + 1, IF to < Len(t) THEN to ELSE Len(t))

(* `order-receipt-${order.id.substring(0, 8)}.html` *)
DownloadName(o) == FilePrefix \o Substring(o.id, 0, 8) \o FileSuffix

(* receiptRef.current.innerHTML: the markup rendered from the order *)
ReceiptHtml(o) == <<"receipt", o.id, o.status>>

(* a DOM node: its tag or id, and a number telling the anchors apart *)
Node(tag, k) == <<tag, k>>

(* document.body.appendChild(a), document.body.removeChild(a) *)
AppendChild(b, node) == Append(b, node)
KeepChild(b, node) == b
RemoveChild(b, node) == SelectSeq(b, LAMBDA x : x # node)

IsChild(b, node) == \E k \in 1..Len(b) : b[k] = node

(* URL.createObjectURL(blob), URL.revokeObjectURL(url) *)
CreateObjectURL(urls, u) == urls \cup {u}
RevokeObjectURL(urls, u) == urls \ {u}

(* if (receiptRef.current) *)
RefIsSet(m) == m

(* React sets receiptRef.current on mount and clears it on unmount *)
ReceiptRefChanges ==
  /\ receiptMounted' = ~receiptMounted
  /\ UNCHANGED <<order, docBody, objectUrls, createdUrls, downloads, printWindows,
                 opens, receiptOps, receiptRequests, notReceipt>>

(* handlePrint; window.open returns the new window, or null when the    *)
(* browser blocks it                                                   *)
HandlePrint(opened) ==
  /\ receiptOps < MaxReceiptOps
  /\ receiptOps' = receiptOps + 1
  /\ IF RefIsSet(receiptMounted)
     THEN /\ opens' = Append(opens, IF opened THEN "window" ELSE "null")
          /\ printWindows' =
               IF opened
               THEN Append(printWindows,
                      [content |-> ReceiptHtml(order), printed |-> TRUE, closed |-> TRUE])
               ELSE printWindows
     ELSE UNCHANGED <<opens, printWindows>>
  /\ UNCHANGED <<order, receiptMounted, docBody, objectUrls, createdUrls, downloads,
                 receiptRequests, notReceipt>>

(* handleDownload *)
HandleDownload ==
  /\ receiptOps < MaxReceiptOps
  /\ receiptOps' = receiptOps + 1
  /\ IF RefIsSet(receiptMounted)
     THEN LET url == <<"blob", createdUrls + 1>>
              a == Node("a", createdUrls + 1)
              live == CreateObjectURL(objectUrls, url)
              attached == AppendChild(docBody, a)
          IN /\ createdUrls' = createdUrls + 1
             /\ downloads' = Append(downloads,
                  [name |-> DownloadName(order), content |-> ReceiptHtml(order),
                   attached |-> IsChild(attached, a), live |-> url \in live])
             /\ docBody' = RemoveChild(attached, a)
             /\ objectUrls' = RevokeObjectURL(live, url)
     ELSE UNCHANGED <<createdUrls, downloads, docBody, objectUrls>>
  /\ UNCHANGED <<order, receiptMounted, printWindows, opens, receiptRequests, notReceipt>>

(* the receipt of an order already fetched is on the page *)
InitReceipt ==
  /\ order \in Orders
  /\ receiptMounted \in BOOLEAN
  /\ docBody \in {<<Node("root", 0)>>, <<Node("root", 0), Node("install-button", 0)>>}
  /\ objectUrls = {}
  /\ createdUrls = 0
  /\ downloads = <<>>
  /\ printWindows = <<>>
  /\ opens = <<>>
  /\ receiptOps = 0
  /\ receiptRequests = 0
  /\ CardIdle
  /\ PageCartIdle
  /\ InstallIdle
  /\ dbRatings = [p \in ProductIds |-> [u \in Users |-> 0]]
  /\ dbProductRating = [p \in ProductIds |-> <<0, 1>>]
  /\ dbImages = [p \in ProductIds |-> 0]
  /\ user = [c \in Clients |-> NoUser]
  /\ product = [c \in Clients |-> NoProduct]
  /\ rating = [c \in Clients |-> Whole(0)]
  /\ hasRated = [c \in Clients |-> FALSE]
  /\ location = [c \in Clients |-> "page"]
  /\ notes = [c \in Clients |-> <<>>]
  /\ flows = <<>>
  /\ productId = [c \in Clients |-> "p1"]
  /\ loading = [c \in Clients |-> TRUE]
  /\ productImages = [c \in Clients |-> <<>>]
  /\ currentImageIndex = [c \in Clients |-> 0]
  /\ fetches = <<>>

NextReceipt ==
  \/ ReceiptRefChanges
  \/ \E opened \in BOOLEAN : HandlePrint(opened)
  \/ HandleDownload

SpecReceipt == InitReceipt /\ [][NextReceipt]_vars

(* C8: handlePrint and handleDownload issue no backend request and leave *)
(* the order as it is; with the receipt element not mounted they do     *)
(* nothing; handlePrint does nothing further when no print window could *)
(* be opened; handleDownload leaves the document body and the set of    *)
(* object urls as it found them, the anchor having been in the body and *)
(* the url live at the click.                                           *)
C8_ReceiptFrame ==
  /\ [][receiptOps' > receiptOps =>
          /\ order' = order /\ receiptRequests' = receiptRequests
          /\ dbRatings' = dbRatings /\ dbProductRating' = dbProductRating
          /\ docBody' = docBody /\ objectUrls' = objectUrls
          /\ ~receiptMounted =>
               UNCHANGED <<downloads, printWindows, opens, createdUrls>>
          /\ Len(opens') > Len(opens) /\ opens'[Len(opens')] = "null" =>
               UNCHANGED <<downloads, printWindows, createdUrls>>]_vars
  /\ [](\A k \in 1..Len(downloads) :
          /\ downloads[k].attached /\ downloads[k].live
          /\ downloads[k].name = FilePrefix \o Substring(order.id, 0, 8) \o FileSuffix)
  /\ [](Len(downloads) = createdUrls /\ objectUrls = {})
  /\ [](\A k \in 1..Len(printWindows) :
          printWindows[k].content = ReceiptHtml(order) /\ printWindows[k].closed)

(* a download, a blocked print, and a click with the receipt not mounted *)
C8_Witness ==
  /\ Len(downloads) = 1
  /\ Len(opens) = 1 /\ opens[1] = "null"
  /\ receiptOps = 3
  /\ Len(docBody) = 2

(* ------------------------------------------------------------------ *)
(* ProductDetails.handleAddToCart, and the three handlers that a       *)
(* visitor who is not logged in can reach: handleRating and            *)
(* handleAddToCart of the product page, handleAddToCart of the card    *)
(* ------------------------------------------------------------------ *)
(* the login is not looked at *)
AlwaysLoggedIn(c) == TRUE

(* const isLoggedIn = useAuthStore((state) => !!state.user) *)
IsLoggedIn(c) == user[c] # NoUser

(* a click on "Add to Cart" of page c (rendered once the product is     *)
(* displayed)                                                          *)
HandleAddToCart(c) ==
  /\ location[c] = "page"
  /\ ~loading[c]
  /\ UNCHANGED <<dbVars, user, product, rating, hasRated, notes, flows, fetchVars,
                 cardVars, receiptVars, installVars>>
  /\ IF product[c] = NoProduct
     THEN UNCHANGED <<location, cartVars>>
     ELSE IF ~IsLoggedIn(c)
     THEN /\ location' = [location EXCEPT ![c] = "/login"]
          /\ UNCHANGED cartVars
     ELSE /\ pageAdds[c] < MaxAttempts
          /\ pageAdds' = [pageAdds EXCEPT ![c] = @ + 1]
          /\ pageCart' = [pageCart EXCEPT ![c] = @ + 1]
          /\ UNCHANGED location

(* await addToCart(product) of page c returns or throws *)
PageCartSettles(c, ok) ==
  /\ pageCart[c] > 0
  /\ pageCart' = [pageCart EXCEPT ![c] = @ - 1]
  /\ Notify(c, IF ok THEN "success" ELSE "error")
  /\ UNCHANGED <<dbVars, user, product, rating, hasRated, location, flows, pageAdds,
                 fetchVars, cardVars, receiptVars, installVars>>

(* page c1 of a logged-in user and page c2 of a visitor, both on the    *)
(* loaded product p1, and a card of the product list shown to a visitor *)
InitGuest ==
  /\ dbRatings = [p \in ProductIds |-> [u \in Users |->
                    IF p = "p1" /\ u = "u2" THEN Stars ELSE 0]]
  /\ dbProductRating = [p \in ProductIds |-> AvgRating(dbRatings[p])]
  /\ user = [c \in Clients |-> IF c = "c1" THEN "u1" ELSE NoUser]
  /\ product = [c \in Clients |-> "p1"]
  /\ hasRated = [c \in Clients |-> FALSE]
  /\ rating = [c \in Clients |-> RatingOrDefault(dbProductRating["p1"])]
  /\ location = [c \in Clients |-> "page"]
  /\ notes = [c \in Clients |-> <<>>]
  /\ flows = <<>>
  /\ dbImages = [p \in ProductIds |-> 0]
  /\ productId = [c \in Clients |-> "p1"]
  /\ loading = [c \in Clients |-> FALSE]
  /\ productImages = [c \in Clients |-> <<Image("p1", 0)>>]
  /\ currentImageIndex = [c \in Clients |-> 0]
  /\ fetches = <<>>
  /\ cardProduct = [id |-> <<"p", "1">>, name |-> <<"T", "e", "a">>]
  /\ cardLoggedIn = FALSE
  /\ route = "list"
  /\ showShareOptions = FALSE
  /\ linkCopied = FALSE
  /\ notifications = <<>>
  /\ body = {}
  /\ timers = {}
  /\ clipboardPending = 0
  /\ cartPending = 0
  /\ windows = <<>>
  /\ shareLog = <<>>
  /\ toggles = 0
  /\ attempts = 0
  /\ copyResults = <<>>
  /\ domErrors = 0
  /\ ReceiptIdle
  /\ PageCartIdle
  /\ InstallIdle

(* no handler of page c is waiting for a remote call *)
Quiet(c) ==
  /\ pageCart[c] = 0
  /\ \A f \in FlowIds : flows[f].client = c => ~InFlight(flows[f])

(* the clicks on a page come one after the other's handler has ended   *)
(* (overlapping handleRating runs are what SpecRating explores)         *)
NextGuest ==
  \/ \E c \in Clients, v \in StarChoices : Quiet(c) /\ HandleRating(c, v)
  \/ \E f \in FlowIds, ok \in BOOLEAN : UpsertReturn(f, ok)
  \/ \E f \in FlowIds, ok \in BOOLEAN : ReadReturn(f, ok)
  \/ \E f \in FlowIds, ok \in BOOLEAN : UpdateReturn(f, ok)
  \/ \E c \in Clients : Quiet(c) /\ HandleAddToCart(c)
  \/ \E c \in Clients, ok \in BOOLEAN : PageCartSettles(c, ok)
  \/ HandleAddToCartCard

SpecGuest == InitGuest /\ [][NextGuest]_vars

(* the visitors' pages *)
Visitors == {c \in Clients : user[c] = NoUser}

(* C16: for a visitor who is not logged in the three handlers call no   *)
(* addToCart, issue no upsert and no update and show no notification;   *)
(* all they change is the location, to /login.  Every handleRating run  *)
(* that exists (each has issued its upsert) carries the logged-in user  *)
(* of its page, the product loaded there and a value in 1..5; the       *)
(* tables change only in the step of a run of a logged-in user.         *)
C16_NoAnonymousWrites ==
  /\ [](\A f \in FlowIds :
         LET fl == flows[f] IN
           /\ fl.uid \in Users /\ fl.uid = user[fl.client]
           /\ fl.pid \in ProductIds /\ fl.pid = product[fl.client]
           /\ fl.value \in 1..5
           /\ fl.calls[1] = "upsert")
  /\ [](\A c \in Visitors : pageCart[c] = 0 /\ pageAdds[c] = 0 /\ notes[c] = <<>>)
  /\ [](~cardLoggedIn => cartPending = 0 /\ notifications = <<>>)
  /\ [][\A c \in Visitors :
         /\ location'[c] \in {location[c], "/login"}
         /\ <<rating'[c], hasRated'[c], product'[c]>> = <<rating[c], hasRated[c], product[c]>>]_vars
  /\ [][~cardLoggedIn => route' \in {route, "/login"}]_vars
  /\ [][<<dbRatings', dbProductRating'>> # <<dbRatings, dbProductRating>> =>
         \E f \in FlowIds :
           /\ InFlight(flows[f]) /\ flows'[f].pc # flows[f].pc
           /\ flows[f].client \notin Visitors]_vars

(* the visitor has clicked a star or Add to Cart on the page and Add to *)
(* Cart on the card, the logged-in user has rated and added to the cart *)
C16_Witness ==
  /\ Visitors = {"c2"} /\ location["c2"] = "/login"
  /\ ~cardLoggedIn /\ route = "/login"
  /\ \E f \in FlowIds : flows[f].update = "ok" /\ flows[f].uid = "u1"
  /\ pageAdds["c1"] > 0 /\ pageCart["c1"] = 0
  /\ dbRatings["p1"]["u1"] # 0

(* ------------------------------------------------------------------ *)
(* main.tsx: the install flow.  deferredPrompt is one module variable; *)
(* every beforeinstallprompt event adds one more click listener to the *)
(* install button; the listeners read deferredPrompt when they run.    *)
(* ------------------------------------------------------------------ *)
(* deferredPrompt holds an event, so that .prompt() can be called *)
IsEvent(d) == d[1] = "event"

(* window.addEventListener('beforeinstallprompt', (e) => { ... }) *)
BeforeInstallPrompt ==
  /\ installEvents < MaxInstallEvents
  /\ installEvents' = installEvents + 1
  /\ deferredPrompt' = Event(installEvents + 1)
  /\ IF installButton
     THEN /\ buttonDisplay' = "block"
          /\ clickListeners' = Append(clickListeners, Event(installEvents + 1))
     ELSE UNCHANGED <<buttonDisplay, clickListeners>>
  /\ lastEvent' = "beforeinstallprompt"
  /\ UNCHANGED <<installButton, choiceThens, promptCalls, clicks, notInstall>>

(* a click on the install button: each of its click listeners runs      *)
(* deferredPrompt.prompt() and, unless that threw (deferredPrompt is    *)
(* null), deferredPrompt.userChoice.then(...)                           *)
ClickInstall ==
  /\ installButton
  /\ buttonDisplay # "none"
  /\ clicks < MaxClicks
  /\ clicks' = clicks + 1
  /\ promptCalls' = promptCalls \o
        [k \in 1..Len(clickListeners) |-> [click |-> clicks + 1, on |-> deferredPrompt]]
  /\ choiceThens' =
        IF IsEvent(deferredPrompt)
        THEN choiceThens \o [k \in 1..Len(clickListeners) |-> deferredPrompt]
        ELSE choiceThens
  /\ lastEvent' = "click"
  /\ UNCHANGED <<installButton, deferredPrompt, buttonDisplay, clickListeners,
                 installEvents, notInstall>>

(* the userChoice promise of event e settles: every callback waiting on *)
(* it runs  deferredPrompt = null                                       *)
ChoiceResolves(e) ==
  /\ \E k \in 1..Len(choiceThens) : choiceThens[k] = e
  /\ choiceThens' = SelectSeq(choiceThens, LAMBDA x : x # e)
  /\ deferredPrompt' = Null
  /\ lastEvent' = "userChoice"
  /\ UNCHANGED <<installButton, buttonDisplay, clickListeners, promptCalls,
                 installEvents, clicks, notInstall>>

(* window.addEventListener('appinstalled', () => { ... }) *)
AppInstalled ==
  /\ buttonDisplay' = IF installButton THEN "none" ELSE buttonDisplay
  /\ deferredPrompt' = Null
  /\ lastEvent' = "appinstalled"
  /\ UNCHANGED <<installButton, clickListeners, choiceThens, promptCalls,
                 installEvents, clicks, notInstall>>

(* main.tsx has run; the page has an element with id install-button or *)
(* it has none                                                         *)
InitInstall ==
  /\ installButton \in BOOLEAN
  /\ deferredPrompt = Undefined
  /\ buttonDisplay = ""
  /\ clickListeners = <<>>
  /\ choiceThens = <<>>
  /\ promptCalls = <<>>
  /\ installEvents = 0
  /\ clicks = 0
  /\ lastEvent = "none"
  /\ PageCartIdle
  /\ CardIdle
  /\ ReceiptIdle
  /\ dbRatings = [p \in ProductIds |-> [u \in Users |-> 0]]
  /\ dbProductRating = [p \in ProductIds |-> <<0, 1>>]
  /\ dbImages = [p \in ProductIds |-> 0]
  /\ user = [c \in Clients |-> NoUser]
  /\ product = [c \in Clients |-> NoProduct]
  /\ rating = [c \in Clients |-> Whole(0)]
  /\ hasRated = [c \in Clients |-> FALSE]
  /\ location = [c \in Clients |-> "page"]
  /\ notes = [c \in Clients |-> <<>>]
  /\ flows = <<>>
  /\ productId = [c \in Clients |-> "p1"]
  /\ loading = [c \in Clients |-> TRUE]
  /\ productImages = [c \in Clients |-> <<>>]
  /\ currentImageIndex = [c \in Clients |-> 0]
  /\ fetches = <<>>

NextInstall ==
  \/ BeforeInstallPrompt
  \/ ClickInstall
  \/ \E n \in 1..MaxInstallEvents : ChoiceResolves(Event(n))
  \/ AppInstalled

SpecInstall == InitInstall /\ [][NextInstall]_vars

(* C17: no click on the install button calls prompt() on a cleared      *)
(* (null) deferredPrompt, no click calls prompt() more than once, and   *)
(* when the appinstalled listener has run the button is hidden and      *)
(* deferredPrompt is null.                                              *)
C17_InstallFlow ==
  /\ \A k \in 1..Len(promptCalls) : promptCalls[k].on # Null
  /\ \A k, j \in 1..Len(promptCalls) :
       promptCalls[k].click = promptCalls[j].click => k = j
  /\ lastEvent = "appinstalled" =>
       /\ deferredPrompt = Null
       /\ installButton => buttonDisplay = "none"

====
